---- MODULE Spec2Model ----
(***************************************************************************)
(* Model of src/expense_splitter.js: the Google-Sheets expense splitter.   *)
(*                                                                         *)
(* Strings are sequences of one-character strings, so that trim,           *)
(* toLowerCase, split, join, sort and parseFloat are computed the way the  *)
(* script computes them.  Numbers are exact: a money value is an integer   *)
(* number of "units", Unit units making one hundredth (one minor unit,     *)
(* 0.01) and 100 * Unit units making one whole currency unit; Unit is      *)
(* divisible by every total weight the inputs can produce, so that         *)
(* amount * (weight / totalWeight) is an integer number of units.          *)
(* Floating-point rounding of the JavaScript engine is not modelled.       *)
(***************************************************************************)
EXTENDS Integers, Sequences, FiniteSets, TLC

VARIABLES
  pc,              \* position inside calculateExpensesWithSubgroups / the minimizers
  missing,         \* which required sheet or column the spreadsheet lacks ("none" if all resolve)
  allMembers,      \* Set allMembers, as the sequence of its insertion order
  subgroupMap,     \* Map subgroupMap: sequence of [key, members] in insertion order
  nameToGroupKey,  \* Map nameToGroupKey: sequence of [name, key]
  balances,        \* object balances: sequence of [name, amount] in key order
  perItemSplits,   \* object perItemSplits: sequence of [item, shares], shares a sequence of [name, amount]
  i,               \* processExpenses: number of data rows read so far
  row,             \* processExpenses: the cells of the row read last
  groupBalances,   \* Map returned by calculateGroupBalances: sequence of [name (the key), amount]
  creditors,       \* minimizer: array creditors, [name, amount] with amount in minor units
  debtors,         \* minimizer: array debtors
  transactions,    \* minimizer: array transactions, [from, to, amount]
  input,           \* minimizer: the balance map the running minimizer was called with
  written,         \* tables written to the output sheet so far, in order
  sheets,          \* membersData, subgroupsData and the rows of expensesData read so far
  runs             \* what the calls that ended before this one left behind, in order

vars == <<pc, missing, allMembers, subgroupMap, nameToGroupKey, balances, perItemSplits,
          i, row, groupBalances, creditors, debtors, transactions, input, written,
          sheets, runs>>

-----------------------------------------------------------------------------
(* Bounds of the model *)

\* rows of the Expenses sheet below its header
MaxRows == 2
\* rows of the Members sheet below its header
MaxMembers == 3
\* rows of the Subgroups sheet below its header
MaxGroups == 2
\* parties handed to a minimizer called on its own
MaxParties == 3
\* largest magnitude, in half minor units, of a balance handed to a minimizer called on its own
MaxBal == 6
\* calls of calculateExpensesWithSubgroups on one spreadsheet
MaxRuns == 2

-----------------------------------------------------------------------------
(* Strings *)

\* the value of an empty or unresolved cell: data[i][-1], an absent column
UNDEF == <<"#undefined">>

\* UTF-16 code-unit order of the characters the inputs use
CodeOrder == <<" ", "*", ",", "-", "0", "1", "2", "3", "4", "5", "6", "7", "8", "9", ":",
               "A", "B", "C", "D", "L", "X", "a", "b", "c", "d", "x">>

Ord(c) == CHOOSE k \in 1..Len(CodeOrder) : CodeOrder[k] = c

Digits == {"0", "1", "2", "3", "4", "5", "6", "7", "8", "9"}

DigitVal(c) == Ord(c) - Ord("0")

toLowerChar(c) ==
  CASE c = "A" -> "a" [] c = "B" -> "b" [] c = "C" -> "c" [] c = "D" -> "d"
    [] c = "X" -> "x" [] OTHER -> c

toUpperChar(c) ==
  CASE c = "a" -> "A" [] c = "b" -> "B" [] c = "c" -> "C" [] c = "d" -> "D"
    [] c = "x" -> "X" [] OTHER -> c

toLowerCase(s) == [k \in 1..Len(s) |-> toLowerChar(s[k])]

RECURSIVE trimStart(_)
trimStart(s) == IF s # <<>> /\ Head(s) = " " THEN trimStart(Tail(s)) ELSE s

RECURSIVE trimEnd(_)
trimEnd(s) == IF s # <<>> /\ s[Len(s)] = " " THEN trimEnd(SubSeq(s, 1, Len(s) - 1)) ELSE s

trim(s) == trimEnd(trimStart(s))

\* String.prototype.split(sep) for a one-character separator: "" gives [""]
RECURSIVE splitFrom(_, _, _)
splitFrom(s, sep, cur) ==
  IF s = <<>> THEN <<cur>>
  ELSE IF Head(s) = sep THEN <<cur>> \o splitFrom(Tail(s), sep, <<>>)
  ELSE splitFrom(Tail(s), sep, Append(cur, Head(s)))

split(s, sep) == splitFrom(s, sep, <<>>)

\* Array.prototype.join(sep), sep a string
RECURSIVE join(_, _)
join(list, sep) ==
  IF list = <<>> THEN <<>>
  ELSE IF Len(list) = 1 THEN list[1]
  ELSE list[1] \o sep \o join(Tail(list), sep)

\* Boolean(v) of a cell: undefined and "" are falsy
Truthy(v) == v # UNDEF /\ v # <<>>

\* Array.prototype.filter(Boolean) on an array of strings
RECURSIVE filterBoolean(_)
filterBoolean(list) ==
  IF list = <<>> THEN <<>>
  ELSE IF Truthy(Head(list)) THEN <<Head(list)>> \o filterBoolean(Tail(list))
  ELSE filterBoolean(Tail(list))

\* s < t in the order Array.prototype.sort() uses by default (code units)
RECURSIVE strLess(_, _)
strLess(s, t) ==
  IF t = <<>> THEN FALSE
  ELSE IF s = <<>> THEN TRUE
  ELSE IF Head(s) = Head(t) THEN strLess(Tail(s), Tail(t))
  ELSE Ord(Head(s)) < Ord(Head(t))

\* insert x into the sorted list, after the elements that are not greater (stable)
RECURSIVE insertSorted(_, _)
insertSorted(list, x) ==
  IF list = <<>> THEN <<x>>
  ELSE IF strLess(x, Head(list)) THEN <<x>> \o list
  ELSE <<Head(list)>> \o insertSorted(Tail(list), x)

\* Array.prototype.sort() of an array of strings
RECURSIVE sortStrings(_)
sortStrings(list) ==
  IF list = <<>> THEN <<>>
  ELSE insertSorted(sortStrings(SubSeq(list, 1, Len(list) - 1)), list[Len(list)])

\* the elements of a list in order of first occurrence: new Set(list), Array.from(new Set(list))
RECURSIVE dedupe(_)
dedupe(list) ==
  IF list = <<>> THEN <<>>
  ELSE LET front == dedupe(SubSeq(list, 1, Len(list) - 1))
           x == list[Len(list)]
       IN IF \E k \in 1..Len(front) : front[k] = x THEN front ELSE Append(front, x)

Range(list) == {list[k] : k \in 1..Len(list)}

\* str.charAt(0).toUpperCase() + str.slice(1)
capitalize(str) == IF str = <<>> THEN <<>> ELSE <<toUpperChar(Head(str))>> \o Tail(str)

\* groupKey.split(",").map(capitalize).join(", ")
formatGroup(groupKey) ==
  LET parts == split(groupKey, ",")
  IN join([k \in 1..Len(parts) |-> capitalize(parts[k])], <<",", " ">>)

\* parseFloat of a cell without a decimal point or exponent: leading blanks, an
\* optional sign, then the longest run of digits; NaN when there is no digit.
NaN == [nan |-> TRUE, val |-> 0]

RECURSIVE digitsValue(_, _)
digitsValue(s, acc) ==
  IF s = <<>> \/ Head(s) \notin Digits THEN acc
  ELSE digitsValue(Tail(s), 10 * acc + DigitVal(Head(s)))

parseFloat(v) ==
  IF v = UNDEF THEN NaN
  ELSE LET t == trimStart(v)
           neg == t # <<>> /\ Head(t) = "-"
           u == IF neg THEN Tail(t) ELSE t
       IN IF u = <<>> \/ Head(u) \notin Digits THEN NaN
          ELSE [nan |-> FALSE, val |-> IF neg THEN 0 - digitsValue(u, 0) ELSE digitsValue(u, 0)]

-----------------------------------------------------------------------------
(* Maps and objects, kept as sequences of entries in insertion order *)

Has(list, name) == \E k \in 1..Len(list) : list[k].name = name

IndexOf(list, name) == CHOOSE k \in 1..Len(list) : list[k].name = name

\* obj[name] || 0
Get(list, name) == IF Has(list, name) THEN list[IndexOf(list, name)].amount ELSE 0

\* obj[name] = (obj[name] || 0) + delta, a new key going last
Add(list, name, delta) ==
  IF Has(list, name)
  THEN [k \in 1..Len(list) |->
          IF list[k].name = name THEN [name |-> name, amount |-> list[k].amount + delta]
          ELSE list[k]]
  ELSE Append(list, [name |-> name, amount |-> delta])

RECURSIVE SumAmounts(_)
SumAmounts(list) == IF list = <<>> THEN 0 ELSE Head(list).amount + SumAmounts(Tail(list))

HasKey(map, key) == \E k \in 1..Len(map) : map[k].key = key

\* Map.prototype.set: an existing key keeps its position
MapSet(map, key, members) ==
  IF HasKey(map, key)
  THEN [k \in 1..Len(map) |->
          IF map[k].key = key THEN [key |-> key, members |-> members] ELSE map[k]]
  ELSE Append(map, [key |-> key, members |-> members])

\* nameToGroupKey.get(name)
GroupKeyOf(n2k, name) == IF Has(n2k, name) THEN n2k[IndexOf(n2k, name)].key ELSE UNDEF

-----------------------------------------------------------------------------
(* Step 0: the Members and Subgroups sheets *)

\* name => String(name).trim().toLowerCase()
normalize(raw) == toLowerCase(trim(raw))

\* new Set(membersData.flat().filter(Boolean).map(normalize))
readMembers(membersData) ==
  LET kept == filterBoolean(membersData)
  IN dedupe([k \in 1..Len(kept) |-> normalize(kept[k])])

\* raw.split(",").map(n => n.trim().toLowerCase()).filter(Boolean)
parseGroup(raw) ==
  LET parts == split(raw, ",")
  IN filterBoolean([k \in 1..Len(parts) |-> normalize(parts[k])])

\* the body of the forEach over the Subgroups sheet: group.sort() sorts the array in
\* place before new Set(group) reads it
registerGroup(map, raw) ==
  LET group == parseGroup(raw)
      sorted == sortStrings(group)
  IN IF Len(group) > 0 THEN MapSet(map, join(sorted, <<",">>), dedupe(sorted)) ELSE map

RECURSIVE registerGroups(_, _)
registerGroups(map, raws) ==
  IF raws = <<>> THEN map ELSE registerGroups(registerGroup(map, Head(raws)), Tail(raws))

\* subgroupsData.flat().filter(Boolean).forEach(register)
readSubgroups(subgroupsData) == registerGroups(<<>>, filterBoolean(subgroupsData))

-----------------------------------------------------------------------------
(* Step 1: assignMembersToSubgroups *)

\* index of the first entry of subgroupMap whose member set has the member, 0 if none
firstGroupWith(map, member) ==
  IF \E k \in 1..Len(map) : member \in Range(map[k].members)
  THEN CHOOSE k \in 1..Len(map) :
         /\ member \in Range(map[k].members)
         /\ \A j \in 1..(k - 1) : member \notin Range(map[j].members)
  ELSE 0

\* assignMember with a fault: the self-group is mapped but not put into subgroupMap
assignMemberUnregistered(st, member) ==
  LET map == st[1]
      n2k == st[2]
      g == firstGroupWith(map, member)
  IN IF g # 0
     THEN <<map, Append(n2k, [name |-> member, key |-> map[g].key])>>
     ELSE <<map, Append(n2k, [name |-> member, key |-> member])>>

\* one iteration of the loop over allMembers, on the pair <<subgroupMap, nameToGroupKey>>
assignMember(st, member) ==
  LET map == st[1]
      n2k == st[2]
      g == firstGroupWith(map, member)
  IN IF g # 0
     THEN <<map, Append(n2k, [name |-> member, key |-> map[g].key])>>
     ELSE <<MapSet(map, member, <<member>>), Append(n2k, [name |-> member, key |-> member])>>

RECURSIVE assignAll(_, _)
assignAll(st, members) ==
  IF members = <<>> THEN st ELSE assignAll(assignMember(st, Head(members)), Tail(members))

\* assignMembersToSubgroups(allMembers, subgroupMap, nameToGroupKey, nameToGroup),
\* starting from empty nameToGroupKey; allMembers is a Set, so no member repeats
assignMembersToSubgroups(members, map) == assignAll(<<map, <<>>>>, members)

-----------------------------------------------------------------------------
(* Step 2: getParticipants and processExpenses *)

\* the body of the forEach over the entries of a split specifier
parseEntry(entry) ==
  LET parts == split(entry, ":")
      name == trim(parts[1])
      weight == parseFloat(IF Len(parts) >= 2 THEN trim(parts[2]) ELSE UNDEF)
  IN [name |-> name, weight |-> IF weight.nan \/ weight.val <= 0 THEN 1 ELSE weight.val]

\* uniqueByName with a fault: the last weight found is kept
RECURSIVE uniqueByNameLast(_)
uniqueByNameLast(participants) ==
  IF participants = <<>> THEN <<>>
  ELSE LET rest == uniqueByNameLast(Tail(participants))
           p == Head(participants)
       IN IF Has(rest, p.name)
          THEN <<[name |-> p.name, weight |-> rest[IndexOf(rest, p.name)].weight]>>
                 \o SelectSeq(rest, LAMBDA q : q.name # p.name)
          ELSE <<p>> \o rest

\* "Remove duplicates by name (keep first weight found)"
RECURSIVE uniqueByName(_)
uniqueByName(participants) ==
  IF participants = <<>> THEN <<>>
  ELSE LET front == uniqueByName(SubSeq(participants, 1, Len(participants) - 1))
           p == participants[Len(participants)]
       IN IF Has(front, p.name) THEN front ELSE Append(front, p)

\* isWildcard with a fault: the specifier compared without trim()
isWildcardUntrimmed(splitBetweenRaw) == splitBetweenRaw = <<"*">>

\* splitBetweenRaw && splitBetweenRaw.trim() === "*"
isWildcard(splitBetweenRaw) == Truthy(splitBetweenRaw) /\ trim(splitBetweenRaw) = <<"*">>

\* splitBetweenRaw.split(",") on undefined: TypeError
getParticipantsThrows(splitBetweenRaw) == ~isWildcard(splitBetweenRaw) /\ splitBetweenRaw = UNDEF

\* getParticipants(splitBetweenRaw, allMembers), for a call that does not throw
getParticipants(splitBetweenRaw, members) ==
  IF isWildcard(splitBetweenRaw)
  THEN [k \in 1..Len(members) |-> [name |-> members[k], weight |-> 1]]
  ELSE LET parts == split(splitBetweenRaw, ",")
           entries == filterBoolean([k \in 1..Len(parts) |-> normalize(parts[k])])
       IN uniqueByName([k \in 1..Len(entries) |-> parseEntry(entries[k])])

\* participants.reduce((sum, p) => sum + p.weight, 0)
RECURSIVE totalWeightOf(_)
totalWeightOf(participants) ==
  IF participants = <<>> THEN 0 ELSE Head(participants).weight + totalWeightOf(Tail(participants))

\* if (!item || !paidByRaw || isNaN(amount)) continue;
rowIsSkipped(item, paidByRaw, amount) == ~Truthy(item) \/ ~Truthy(paidByRaw) \/ amount.nan

\* noParticipants with a fault: the check left out
noParticipantsUnchecked(participants) == FALSE

\* if (participants.length === 0) continue;
noParticipants(participants) == Len(participants) = 0

-----------------------------------------------------------------------------
(* The inputs the model draws from *)

\* canonical names: a, b, c, d are used as members, x never is
NameList == << <<"a">>, <<"b">>, <<"c">>, <<"d">> >>

\* cells of the Members sheet: "a", " B", "c", "a,b" (a name with a comma), an empty
\* cell, a blank cell
MemberCells == { <<"a">>, <<" ", "B">>, <<"c">>, <<"a", ",", "b">>, <<>>, <<" ">> }

\* cells of the Subgroups sheet: "a,b", "B , c", "b,a", "c", "a,a,b", ",", "a,x", empty
GroupCells ==
  { <<"a", ",", "b">>, <<"B", " ", ",", " ", "c">>, <<"b", ",", "a">>, <<"c">>,
    <<"a", ",", "a", ",", "b">>, <<",">>, <<"a", ",", "x">>, <<>> }

\* all sequences over S of length at most n
RECURSIVE SeqsUpTo(_, _)
SeqsUpTo(S, n) ==
  IF n = 0 THEN {<<>>}
  ELSE LET shorter == SeqsUpTo(S, n - 1)
       IN shorter \cup {Append(q, e) : q \in {t \in shorter : Len(t) = n - 1}, e \in S}

\* cells of the Item column: "L", "D", empty
ItemCells == { <<"L">>, <<"D">>, <<>> }

\* cells of the Paid By column: "a", " B", "x" (not a member), empty, blank
PaidByCells == { <<"a">>, <<" ", "B">>, <<"x">>, <<>>, <<" ">> }

\* cells of the Amount column: "90", "100", "0", "-6", "x", empty
AmountCells == { <<"9", "0">>, <<"1", "0", "0">>, <<"0">>, <<"-", "6">>, <<"x">>, <<>> }

\* cells of the Split Between column: "*", " * ", empty, "a,b", "A:2,b:1", "a:3,B:1",
\* "a:x,a:3", "b:0,x:-6", ":2"
SplitCells ==
  { <<"*">>, <<" ", "*", " ">>, <<>>, <<"a", ",", "b">>,
    <<"A", ":", "2", ",", "b", ":", "1">>, <<"a", ":", "3", ",", "B", ":", "1">>,
    <<"a", ":", "x", ",", "a", ":", "3">>, <<"b", ":", "0", ",", "x", ":", "-", "6">>,
    <<":", "2">> }

Row(item, paidBy, amount, splitBetween) ==
  [item |-> item, paidBy |-> paidBy, amount |-> amount, split |-> splitBetween]

\* two well-formed rows: {Lunch, a, 90, *} and {Dinner, B, 100, a:3,B:1}
LunchRow == Row(<<"L">>, <<"a">>, <<"9", "0">>, <<"*">>)

DinnerRow ==
  Row(<<"D">>, <<" ", "B">>, <<"1", "0", "0">>, <<"a", ":", "3", ",", "B", ":", "1">>)

BaseRows == {LunchRow, DinnerRow}

differingCells(r, b) ==
  Cardinality({f \in {"item", "paidBy", "amount", "split"} : r[f] # b[f]})

\* the rows processExpenses is run on by itself: every row that differs from the
\* first well-formed row in at most one cell, and the second one with every split
\* specifier
AllocRows ==
  { r \in [item : ItemCells, paidBy : PaidByCells, amount : AmountCells, split : SplitCells] :
      differingCells(r, LunchRow) <= 1 \/ differingCells(r, DinnerRow) = 0
        \/ (differingCells(r, DinnerRow) = 1 /\ r.split # DinnerRow.split) }

\* the rows of the whole run
RunRows ==
  BaseRows \cup
  { Row(<<"L">>, <<"x">>, <<"6">>, <<"a", ",", "b">>),
    Row(<<"L">>, <<"a">>, <<"x">>, <<"*">>),
    Row(<<"D">>, <<"a">>, <<"9", "0">>, <<>>) }

\* the Members sheets of the whole run: empty, {a, B}, {a, b, c}
RunMemberSheets ==
  { m \in { <<>>, << <<"a">>, <<" ", "B">> >>, << <<"a">>, <<"b">>, <<"c">> >> } :
      Len(m) <= MaxMembers }

\* the Subgroups sheets of the whole run: empty, {"a,b"}, {"b,a", "B , c"}, {"a,x"}
RunGroupSheets ==
  { g \in { <<>>, << <<"a", ",", "b">> >>,
            << <<"b", ",", "a">>, <<"B", " ", ",", " ", "c">> >>,
            << <<"a", ",", "x">> >> } :
      Len(g) <= MaxGroups }

\* what the spreadsheet may lack: a required sheet, the Members column, or one of
\* the four columns of the Expenses sheet
MissingFields == {"sheet", "members", "item", "paid by", "amount", "split between"}

-----------------------------------------------------------------------------
(* Exact arithmetic *)

RECURSIVE gcd(_, _)
gcd(a, b) == IF b = 0 THEN a ELSE gcd(b, a % b)

RECURSIVE lcmUpTo(_, _)
lcmUpTo(S, n) ==
  IF n = 0 THEN 1
  ELSE LET rest == lcmUpTo(S, n - 1)
       IN IF n \in S THEN (rest * n) \div gcd(rest, n) ELSE rest

\* the total weights the inputs produce: k members under "*", the specifiers, and 2
\* (half a minor unit is a whole number of units)
TotalWeights ==
  (1..(MaxMembers + 1)) \cup {2} \cup
  {totalWeightOf(getParticipants(c, <<>>)) : c \in SplitCells \ {<<"*">>, <<" ", "*", " ">>}}

\* units per minor unit (0.01)
Unit == lcmUpTo(TotalWeights, 4 * (MaxMembers + 1))

\* the number an amount read from a sheet stands for, in units
toUnits(val) == val * 100 * Unit

\* parseFloat(x.toFixed(2)), in minor units: the nearest hundredth, a tie going
\* away from zero
toFixed2(x) ==
  IF x >= 0 THEN (2 * x + Unit) \div (2 * Unit) ELSE 0 - ((2 * (0 - x) + Unit) \div (2 * Unit))

-----------------------------------------------------------------------------
(* processExpenses: the allocation of one row *)

\* shareOf with a fault: the share rounded to two decimals before it is added up
shareOfRounded(amount, weight, totalWeight) ==
  toFixed2((amount * weight) \div totalWeight) * Unit

\* shareOf with a fault: amount / totalWeight, the weight left out
shareOfUnweighted(amount, weight, totalWeight) == amount \div totalWeight

\* const share = amount * (weight / totalWeight)
shareOf(amount, weight, totalWeight) == (amount * weight) \div totalWeight

\* if (!perItemSplits[item]) perItemSplits[item] = {};
ensureItem(splits, item) ==
  IF Has(splits, item) THEN splits ELSE Append(splits, [name |-> item, shares |-> <<>>])

\* perItemSplits[item][name] = (perItemSplits[item][name] || 0) + delta
addToItem(splits, item, name, delta) ==
  [k \in 1..Len(splits) |->
     IF splits[k].name = item
     THEN [name |-> item, shares |-> Add(splits[k].shares, name, delta)]
     ELSE splits[k]]

\* "Subtract share for each participant": the forEach over participants, on the
\* pair <<balances, perItemSplits>>
RECURSIVE subtractShares(_, _, _, _, _)
subtractShares(st, item, amount, totalWeight, participants) ==
  IF participants = <<>> THEN st
  ELSE LET p == Head(participants)
           share == shareOf(amount, p.weight, totalWeight)
       IN subtractShares(<<Add(st[1], p.name, 0 - share),
                           addToItem(st[2], item, p.name, 0 - share)>>,
                         item, amount, totalWeight, Tail(participants))

\* "Add full amount to payer"
creditPayer(st, item, paidBy, amount) ==
  <<Add(st[1], paidBy, amount), addToItem(st[2], item, paidBy, amount)>>

\* the loop body of processExpenses from "Weighted split" on, for a row that is not
\* skipped: the new <<balances, perItemSplits>>
allocate(bal, splits, item, paidBy, amount, participants) ==
  LET totalWeight == totalWeightOf(participants)
      shared == subtractShares(<<bal, ensureItem(splits, item)>>, item, amount, totalWeight,
                               participants)
  IN creditPayer(shared, item, paidBy, amount)

\* the cells data[i][col] the loop reads: an unresolved column has index -1 and reads
\* undefined
cellsRead(r, lacking) ==
  [item   |-> IF lacking = "item" THEN UNDEF ELSE r.item,
   paidBy |-> IF lacking = "paid by" THEN UNDEF ELSE r.paidBy,
   amount |-> IF lacking = "amount" THEN UNDEF ELSE r.amount,
   split  |-> IF lacking = "split between" THEN UNDEF ELSE r.split]

-----------------------------------------------------------------------------
(* calculateGroupBalances *)

\* groupTotals with a fault: the total of a key set to the balance, not increased by it
RECURSIVE groupTotalsOverwritten(_, _, _)
groupTotalsOverwritten(acc, n2k, bal) ==
  IF bal = <<>> THEN acc
  ELSE LET key == GroupKeyOf(n2k, Head(bal).name)
       IN groupTotalsOverwritten(Add(acc, key, Head(bal).amount - Get(acc, key)), n2k, Tail(bal))

\* the loop over Object.entries(balances); a name without a group key is added up
\* under the key undefined
RECURSIVE groupTotals(_, _, _)
groupTotals(acc, n2k, bal) ==
  IF bal = <<>> THEN acc
  ELSE groupTotals(Add(acc, GroupKeyOf(n2k, Head(bal).name), Head(bal).amount), n2k, Tail(bal))

calculateGroupBalances(map, n2k, bal) == groupTotals(<<>>, n2k, bal)

-----------------------------------------------------------------------------
(* The minimizers: generateMinimalMemberTransactions and                   *)
(* generateMinimalSubgroupTransactions run the same loop                    *)

\* isCreditor with a fault: val >= 0.01
isCreditorInclusive(val) == val >= 1

\* val > 0.01, with val in minor units
isCreditor(val) == val > 1

\* val < -0.01
isDebtor(val) == val < 0 - 1

\* "Separate creditors and debtors": <<creditors, debtors>>
RECURSIVE separate(_, _)
separate(st, entries) ==
  IF entries = <<>> THEN st
  ELSE LET name == Head(entries).name
           val == toFixed2(Head(entries).amount)
       IN separate(
            IF isCreditor(val) THEN <<Append(st[1], [name |-> name, amount |-> val]), st[2]>>
            ELSE IF isDebtor(val)
              THEN <<st[1], Append(st[2], [name |-> name, amount |-> 0 - val])>>
            ELSE st,
            Tail(entries))

\* insert p after the entries whose amount is not smaller
RECURSIVE insertByAmount(_, _)
insertByAmount(list, p) ==
  IF list = <<>> THEN <<p>>
  ELSE IF p.amount > Head(list).amount THEN <<p>> \o list
  ELSE <<Head(list)>> \o insertByAmount(Tail(list), p)

\* sortByAmount with a fault: the array is left in the order it has
sortByAmountSkipped(list) == list

\* list.sort((a, b) => b.amount - a.amount): descending, equal amounts keeping
\* their order (Array.prototype.sort is stable)
RECURSIVE sortByAmount(_)
sortByAmount(list) ==
  IF list = <<>> THEN <<>>
  ELSE insertByAmount(sortByAmount(SubSeq(list, 1, Len(list) - 1)), list[Len(list)])

\* Math.min
min(a, b) == IF a <= b THEN a ELSE b

\* settleHead with a fault: the head is shifted whatever it has left
settleHeadAlways(list, amount) == Tail(list)

\* if (party.amount < 0.01) list.shift(), after party.amount -= amount on list[0]
settleHead(list, amount) ==
  IF Head(list).amount - amount < 1 THEN Tail(list)
  ELSE <<[name |-> Head(list).name, amount |-> Head(list).amount - amount]>> \o Tail(list)

\* transferOf with a fault: Math.max for Math.min
transferOfMax(cs, ds) == IF ds[1].amount >= cs[1].amount THEN ds[1].amount ELSE cs[1].amount

\* amount transferred by one iteration on the sorted arrays
transferOf(cs, ds) == min(ds[1].amount, cs[1].amount)

-----------------------------------------------------------------------------
(* The output tables *)

Table(kind, header, rows, totals) ==
  [kind |-> kind, header |-> header, rows |-> rows, totals |-> totals]

\* Object.values(perItemSplits).reduce((sum, itemShares) => sum + (itemShares[member] || 0), 0)
RECURSIVE totalShare(_, _)
totalShare(splits, member) ==
  IF splits = <<>> THEN 0 ELSE Get(Head(splits).shares, member) + totalShare(Tail(splits), member)

\* the table writePerItemSplitTable writes: a row per item, then "Person's Net Total"
perItemTable(members, splits) ==
  Table("items",
        [k \in 1..Len(members) |-> capitalize(members[k])],
        [r \in 1..Len(splits) |->
           [name |-> splits[r].name,
            cells |-> [k \in 1..Len(members) |-> toFixed2(Get(splits[r].shares, members[k]))]]],
        [k \in 1..Len(members) |-> toFixed2(totalShare(splits, members[k]))])

\* the table writeBalanceTable writes
balanceTable(bal) ==
  Table("balances", <<>>,
        [r \in 1..Len(bal) |->
           [name |-> capitalize(bal[r].name), cells |-> <<toFixed2(bal[r].amount)>>]],
        <<>>)

\* Array.from(subgroupMap.get(groupKey)) on a key subgroupMap lacks: TypeError
subgroupTableThrows(map, gb) == \E r \in 1..Len(gb) : ~HasKey(map, gb[r].name)

\* the table writeSubgroupBalanceTable writes, when no key is unknown
subgroupTable(map, gb) ==
  Table("subgroups", <<>>,
        [r \in 1..Len(gb) |->
           LET members == map[CHOOSE k \in 1..Len(map) : map[k].key = gb[r].name].members
           IN [name |-> join([k \in 1..Len(members) |-> capitalize(members[k])], <<",", " ">>),
               cells |-> <<toFixed2(gb[r].amount)>>]],
        <<>>)

\* the table writeTransactionTable or writeMemberTransactionTable writes
transactionTable(kind, txs) ==
  Table(kind, <<>>,
        [r \in 1..Len(txs) |-> [name |-> txs[r].from, cells |-> <<txs[r].to, txs[r].amount>>]],
        <<>>)

-----------------------------------------------------------------------------
(* Actions *)

NoRow == [item |-> UNDEF, paidBy |-> UNDEF, amount |-> UNDEF, split |-> UNDEF]

\* a spreadsheet no call has read yet
NoSheets == [members |-> <<>>, subgroups |-> <<>>, expenses |-> <<>>]

\* the state every call starts from
Fresh ==
  /\ allMembers = <<>>
  /\ subgroupMap = <<>>
  /\ nameToGroupKey = <<>>
  /\ balances = <<>>
  /\ perItemSplits = <<>>
  /\ i = 0
  /\ row = NoRow
  /\ groupBalances = <<>>
  /\ creditors = <<>>
  /\ debtors = <<>>
  /\ transactions = <<>>
  /\ input = <<>>

\* calculateExpensesWithSubgroups, "Step 0: Read from separate sheets": throws when a
\* sheet or the Members column is missing; the columns of the Expenses sheet are
\* looked up and not checked. What the sheets hold is recorded by the caller of
\* this action.
ReadSheets(memberSheets, groupSheets) ==
  /\ pc = "start"
  /\ IF missing \in {"sheet", "members"}
     THEN /\ pc' = "thrown"
          /\ UNCHANGED <<allMembers, subgroupMap>>
     ELSE /\ \E membersData \in memberSheets, subgroupsData \in groupSheets :
               /\ allMembers' = readMembers(membersData)
               /\ subgroupMap' = readSubgroups(subgroupsData)
          /\ pc' = "assign"
  /\ UNCHANGED <<missing, runs, nameToGroupKey, balances, perItemSplits, i, row,
                 groupBalances, creditors, debtors, transactions, input, written>>

\* "Step 1: Assign members to subgroups", and the balances set to 0 for every member
AssignMembers ==
  /\ pc = "assign"
  /\ LET st == assignMembersToSubgroups(allMembers, subgroupMap)
     IN /\ subgroupMap' = st[1]
        /\ nameToGroupKey' = st[2]
  /\ balances' = [k \in 1..Len(allMembers) |-> [name |-> allMembers[k], amount |-> 0]]
  /\ pc' = "process"
  /\ UNCHANGED <<missing, sheets, runs, allMembers, perItemSplits, i, row, groupBalances,
                 creditors, debtors, transactions, input, written>>

\* one iteration of the loop of processExpenses, on the next row of the sheet (the
\* row is recorded by the caller of this action)
ProcessRow(rows) ==
  /\ pc = "process"
  /\ i < MaxRows
  /\ \E r \in rows :
       LET cells == cellsRead(r, missing)
           amount == parseFloat(cells.amount)
       IN /\ i' = i + 1
          /\ row' = cells
          /\ IF rowIsSkipped(cells.item, cells.paidBy, amount)
             THEN UNCHANGED <<pc, balances, perItemSplits>>
             ELSE IF getParticipantsThrows(cells.split)
             THEN pc' = "thrown" /\ UNCHANGED <<balances, perItemSplits>>
             ELSE LET participants == getParticipants(cells.split, allMembers)
                      st == allocate(balances, perItemSplits, cells.item,
                                     normalize(cells.paidBy), toUnits(amount.val), participants)
                  IN IF noParticipants(participants)
                     THEN UNCHANGED <<pc, balances, perItemSplits>>
                     ELSE /\ balances' = st[1]
                          /\ perItemSplits' = st[2]
                          /\ pc' = pc
  /\ UNCHANGED <<missing, runs, allMembers, subgroupMap, nameToGroupKey, groupBalances,
                 creditors, debtors, transactions, input, written>>

\* ClearOutput with a fault: the output sheet is not cleared
ClearOutputSkipped ==
  /\ pc = "process"
  /\ runs # <<>> => i = Len(sheets.expenses)
  /\ pc' = "write_items"
  /\ UNCHANGED <<missing, sheets, runs, allMembers, subgroupMap, nameToGroupKey, balances,
                 perItemSplits, i, row, groupBalances, creditors, debtors, transactions, input,
                 written>>

\* processExpenses returns, every row of the sheet read (in a first call the rows
\* read so far are the sheet); "Step 3: Create or clear output sheet"
ClearOutput ==
  /\ pc = "process"
  /\ runs # <<>> => i = Len(sheets.expenses)
  /\ written' = <<>>
  /\ pc' = "write_items"
  /\ UNCHANGED <<missing, sheets, runs, allMembers, subgroupMap, nameToGroupKey, balances, perItemSplits,
                 i, row, groupBalances, creditors, debtors, transactions, input>>

WritePerItemSplitTable ==
  /\ pc = "write_items"
  /\ written' = Append(written, perItemTable(allMembers, perItemSplits))
  /\ pc' = "write_balances"
  /\ UNCHANGED <<missing, sheets, runs, allMembers, subgroupMap, nameToGroupKey, balances, perItemSplits,
                 i, row, groupBalances, creditors, debtors, transactions, input>>

WriteBalanceTable ==
  /\ pc = "write_balances"
  /\ written' = Append(written, balanceTable(balances))
  /\ pc' = "write_subgroups"
  /\ UNCHANGED <<missing, sheets, runs, allMembers, subgroupMap, nameToGroupKey, balances, perItemSplits,
                 i, row, groupBalances, creditors, debtors, transactions, input>>

\* writeSubgroupBalanceTable: throws on a group key subgroupMap does not hold
WriteSubgroupBalanceTable ==
  /\ pc = "write_subgroups"
  /\ groupBalances' = calculateGroupBalances(subgroupMap, nameToGroupKey, balances)
  /\ IF subgroupTableThrows(subgroupMap, groupBalances')
     THEN pc' = "thrown" /\ UNCHANGED written
     ELSE /\ written' = Append(written, subgroupTable(subgroupMap, groupBalances'))
          /\ pc' = "write_transactions"
  /\ UNCHANGED <<missing, sheets, runs, allMembers, subgroupMap, nameToGroupKey, balances, perItemSplits,
                 i, row, creditors, debtors, transactions, input>>

\* writeTransactionTable up to its call of generateMinimalSubgroupTransactions
CallSubgroupMinimizer ==
  /\ pc = "write_transactions"
  /\ groupBalances' = calculateGroupBalances(subgroupMap, nameToGroupKey, balances)
  /\ input' = groupBalances'
  /\ pc' = "sg_separate"
  /\ UNCHANGED <<missing, sheets, runs, allMembers, subgroupMap, nameToGroupKey, balances, perItemSplits,
                 i, row, creditors, debtors, transactions, written>>

\* the minimizer up to its loop: creditors and debtors of the rounded balances
Separate(at, next) ==
  /\ pc = at
  /\ LET st == separate(<<<<>>, <<>>>>, input)
     IN /\ creditors' = st[1]
        /\ debtors' = st[2]
  /\ transactions' = <<>>
  /\ pc' = next
  /\ UNCHANGED <<missing, sheets, runs, allMembers, subgroupMap, nameToGroupKey, balances, perItemSplits,
                 i, row, groupBalances, input, written>>

\* one iteration of the minimizer's loop
SettleStep(at) ==
  /\ pc = at
  /\ creditors # <<>> /\ debtors # <<>>
  /\ LET cs == sortByAmount(creditors)
         ds == sortByAmount(debtors)
         amount == transferOf(cs, ds)
         format(key) == IF at = "sg_loop" THEN formatGroup(key) ELSE capitalize(key)
     IN /\ transactions' = Append(transactions, [from   |-> format(ds[1].name),
                                                 to     |-> format(cs[1].name),
                                                 amount |-> amount])
        /\ debtors' = settleHead(ds, amount)
        /\ creditors' = settleHead(cs, amount)
  /\ UNCHANGED <<pc, missing, sheets, runs, allMembers, subgroupMap, nameToGroupKey, balances,
                 perItemSplits, i, row, groupBalances, input, written>>

\* the loop ends and the minimizer returns transactions
Return(at, next) ==
  /\ pc = at
  /\ creditors = <<>> \/ debtors = <<>>
  /\ pc' = next
  /\ UNCHANGED <<missing, sheets, runs, allMembers, subgroupMap, nameToGroupKey, balances, perItemSplits,
                 i, row, groupBalances, creditors, debtors, transactions, input, written>>

SubgroupSeparate == Separate("sg_separate", "sg_loop")

SubgroupSettleStep == SettleStep("sg_loop")

SubgroupReturn == Return("sg_loop", "sg_return")

\* writeTransactionTable after the minimizer returned
WriteTransactionTable ==
  /\ pc = "sg_return"
  /\ written' = Append(written, transactionTable("subgroup transactions", transactions))
  /\ pc' = "write_member_transactions"
  /\ UNCHANGED <<missing, sheets, runs, allMembers, subgroupMap, nameToGroupKey, balances, perItemSplits,
                 i, row, groupBalances, creditors, debtors, transactions, input>>

\* writeMemberTransactionTable up to its call of generateMinimalMemberTransactions
CallMemberMinimizer ==
  /\ pc = "write_member_transactions"
  /\ input' = balances
  /\ pc' = "m_separate"
  /\ UNCHANGED <<missing, sheets, runs, allMembers, subgroupMap, nameToGroupKey, balances, perItemSplits,
                 i, row, groupBalances, creditors, debtors, transactions, written>>

MemberSeparate == Separate("m_separate", "m_loop")

MemberSettleStep == SettleStep("m_loop")

MemberReturn == Return("m_loop", "m_return")

\* writeMemberTransactionTable after the minimizer returned, and the closing toast
WriteMemberTransactionTable ==
  /\ pc = "m_return"
  /\ written' = Append(written, transactionTable("member transactions", transactions))
  /\ pc' = "done"
  /\ UNCHANGED <<missing, sheets, runs, allMembers, subgroupMap, nameToGroupKey, balances, perItemSplits,
                 i, row, groupBalances, creditors, debtors, transactions, input>>

-----------------------------------------------------------------------------
(* Specifications *)

\* one run of calculateExpensesWithSubgroups
Init ==
  /\ pc = "start"
  /\ missing \in MissingFields \cup {"none"}
  /\ Fresh
  /\ written = <<>>
  /\ sheets = NoSheets
  /\ runs = <<>>

\* the first call reads any sheets, a later call the sheets the first one read
RunReadSheets ==
  /\ pc = "start"
  /\ \E membersData \in IF runs = <<>> THEN RunMemberSheets ELSE {sheets.members},
        subgroupsData \in IF runs = <<>> THEN RunGroupSheets ELSE {sheets.subgroups} :
       /\ ReadSheets({membersData}, {subgroupsData})
       /\ sheets' = IF pc' = "thrown" THEN sheets
                    ELSE [sheets EXCEPT !.members = membersData, !.subgroups = subgroupsData]

RunProcessRow ==
  /\ pc = "process"
  /\ \E r \in IF runs = <<>> THEN RunRows
               ELSE {sheets.expenses[k] : k \in {i + 1} \cap (1..Len(sheets.expenses))} :
       /\ ProcessRow({r})
       /\ sheets' = IF runs = <<>> THEN [sheets EXCEPT !.expenses = Append(@, r)] ELSE sheets

\* what a call that ended leaves behind: how it ended, and its results
Outcome ==
  [pc |-> pc, balances |-> balances, perItemSplits |-> perItemSplits,
   groupBalances |-> groupBalances, written |-> written]

\* calculateExpensesWithSubgroups is called again on the same spreadsheet: every
\* variable of the function is new, the output sheet is the one the earlier call left
CallAgain ==
  /\ pc \in {"done", "thrown"}
  /\ Len(runs) + 1 < MaxRuns
  /\ runs' = Append(runs, Outcome)
  /\ pc' = "start"
  /\ allMembers' = <<>>
  /\ subgroupMap' = <<>>
  /\ nameToGroupKey' = <<>>
  /\ balances' = <<>>
  /\ perItemSplits' = <<>>
  /\ i' = 0
  /\ row' = NoRow
  /\ groupBalances' = <<>>
  /\ creditors' = <<>>
  /\ debtors' = <<>>
  /\ transactions' = <<>>
  /\ input' = <<>>
  /\ UNCHANGED <<missing, sheets, written>>

Next ==
  \/ RunReadSheets
  \/ AssignMembers
  \/ RunProcessRow
  \/ ClearOutput
  \/ WritePerItemSplitTable
  \/ WriteBalanceTable
  \/ WriteSubgroupBalanceTable
  \/ CallSubgroupMinimizer
  \/ SubgroupSeparate
  \/ SubgroupSettleStep
  \/ SubgroupReturn
  \/ WriteTransactionTable
  \/ CallMemberMinimizer
  \/ MemberSeparate
  \/ MemberSettleStep
  \/ MemberReturn
  \/ WriteMemberTransactionTable
  \/ CallAgain

Spec == Init /\ [][Next]_vars

\* steps 0 and 1 on any Members and Subgroups sheets; of the two, the Subgroups
\* sheet is kept for the properties to refer to
ClusterReadSheets ==
  /\ pc = "start"
  /\ \E membersData \in SeqsUpTo(MemberCells, MaxMembers),
        subgroupsData \in SeqsUpTo(GroupCells, MaxGroups) :
       /\ ReadSheets({membersData}, {subgroupsData})
       /\ sheets' = [sheets EXCEPT !.subgroups = subgroupsData]

InitCluster ==
  /\ pc = "start"
  /\ missing = "none"
  /\ Fresh
  /\ written = <<>>
  /\ sheets = NoSheets
  /\ runs = <<>>

NextCluster == ClusterReadSheets \/ AssignMembers

SpecCluster == InitCluster /\ [][NextCluster]_vars

\* processExpenses on any rows, for the members a, b, ... and balances set to 0
AllocProcessRow == pc = "process" /\ ProcessRow(AllocRows) /\ UNCHANGED sheets

InitAlloc ==
  /\ pc = "process"
  /\ missing = "none"
  /\ \E n \in 0..MaxMembers :
       /\ allMembers = SubSeq(NameList, 1, min(n, Len(NameList)))
       /\ balances = [k \in 1..min(n, Len(NameList)) |-> [name |-> NameList[k], amount |-> 0]]
  /\ subgroupMap = <<>>
  /\ nameToGroupKey = <<>>
  /\ perItemSplits = <<>>
  /\ i = 0
  /\ row = NoRow
  /\ groupBalances = <<>>
  /\ creditors = <<>>
  /\ debtors = <<>>
  /\ transactions = <<>>
  /\ input = <<>>
  /\ written = <<>>
  /\ sheets = NoSheets
  /\ runs = <<>>

NextAlloc == AllocProcessRow

SpecAlloc == InitAlloc /\ [][NextAlloc]_vars

\* a minimizer called on any balance map
KeyList == << <<"a", ",", "b">>, <<"c">>, <<"d">>, <<"x">> >>

\* the balances handed to a minimizer: whole and half minor units
BalanceValues == {k * (Unit \div 2) : k \in (0 - MaxBal)..MaxBal}

BalanceMaps(keys) ==
  UNION { [1..n -> BalanceValues] : n \in 0..min(MaxParties, Len(keys)) }

InitMin ==
  /\ \/ /\ pc = "m_separate"
        /\ \E f \in BalanceMaps(NameList) :
             input = [k \in DOMAIN f |-> [name |-> NameList[k], amount |-> f[k]]]
     \/ /\ pc = "sg_separate"
        /\ \E f \in BalanceMaps(KeyList) :
             input = [k \in DOMAIN f |-> [name |-> KeyList[k], amount |-> f[k]]]
  /\ missing = "none"
  /\ allMembers = <<>>
  /\ subgroupMap = <<>>
  /\ nameToGroupKey = <<>>
  /\ balances = <<>>
  /\ perItemSplits = <<>>
  /\ i = 0
  /\ row = NoRow
  /\ groupBalances = <<>>
  /\ creditors = <<>>
  /\ debtors = <<>>
  /\ transactions = <<>>
  /\ written = <<>>
  /\ sheets = NoSheets
  /\ runs = <<>>

NextMin ==
  \/ MemberSeparate
  \/ MemberSettleStep
  \/ MemberReturn
  \/ SubgroupSeparate
  \/ SubgroupSettleStep
  \/ SubgroupReturn

SpecMin == InitMin /\ [][NextMin]_vars

-----------------------------------------------------------------------------
(* Properties of processExpenses, checked under SpecAlloc *)

\* a step of the loop of processExpenses: the next row has been read
RowStep == i' = i + 1

\* the number in an Amount cell
AmountOf(r) == parseFloat(r.amount)

\* a row with an item, a payer and a positive amount
WellFormed(r) ==
  /\ Truthy(r.item)
  /\ Truthy(r.paidBy)
  /\ ~AmountOf(r).nan
  /\ AmountOf(r).val > 0

\* perItemSplits[item], empty when the item has no entry
SharesOf(splits, item) == IF Has(splits, item) THEN splits[IndexOf(splits, item)].shares ELSE <<>>

NamesOf(list) == {list[k].name : k \in 1..Len(list)}

\* the weight a name has in a participant list, 0 when it is not in it
WeightIn(participants, name) ==
  IF Has(participants, name) THEN participants[IndexOf(participants, name)].weight ELSE 0

\* what the step credits to a name: the amount to the payer, nothing to the others
CreditTo(payer, amount, name) == IF name = payer THEN amount ELSE 0

\* what a step took off the entry of a name in a map (balances, or the entries of
\* the row's item), given the map before and after the step
Deducted(before, after, payer, amount, name) ==
  CreditTo(payer, amount, name) - (Get(after, name) - Get(before, name))

\* C1: after any sequence of rows, whoever pays and whoever shares, the entries of
\* balances add up to zero.
Conservation == SumAmounts(balances) = 0

\* C1 witness: rows have been processed and a name outside the member list holds a
\* balance that is not zero.
ConservationWitness ==
  /\ i >= 1
  /\ Has(balances, <<"x">>)
  /\ Get(balances, <<"x">>) # 0
  /\ \E m \in Range(allMembers) : Get(balances, m) # 0

\* C6: a well-formed row with participants takes amount * w / (total weight) off the
\* balance and the per-item entry of each participant of weight w, takes nothing off
\* any other name, and credits the amount to the payer independently.
WeightedSplit ==
  [][(RowStep /\ WellFormed(row')) =>
       \A participants \in {getParticipants(row'.split, allMembers)},
          amount \in {toUnits(AmountOf(row').val)},
          payer \in {normalize(row'.paidBy)},
          itemBefore \in {SharesOf(perItemSplits, row'.item)},
          itemAfter \in {SharesOf(perItemSplits', row'.item)} :
         participants # <<>> =>
           \A name \in NamesOf(balances') \cup NamesOf(participants) \cup {payer} :
             \A charge \in {amount * WeightIn(participants, name)},
                total \in {totalWeightOf(participants)} :
               /\ Has(balances', name)
               /\ Deducted(balances, balances', payer, amount, name) * total = charge
               /\ Deducted(itemBefore, itemAfter, payer, amount, name) * total = charge
    ]_vars

\* C6 witness: 100 paid by Bob and split "a:3,B:1" has left Alice at -75 and Bob at
\* +75, in balances and on the item.
WeightedSplitWitness ==
  /\ i = 1
  /\ row = DinnerRow
  /\ Get(balances, <<"a">>) = 0 - toUnits(75)
  /\ Get(balances, <<"b">>) = toUnits(75)
  /\ Get(SharesOf(perItemSplits, <<"D">>), <<"a">>) = 0 - toUnits(75)
  /\ Get(SharesOf(perItemSplits, <<"D">>), <<"b">>) = toUnits(75)

\* C7: a well-formed row whose specifier is "*" takes amount / N off each of the
\* N >= 1 known members, takes nothing off any other name, and credits the amount to
\* the payer.
WildcardSplit ==
  [][(RowStep /\ WellFormed(row') /\ trim(row'.split) = <<"*">> /\ Len(allMembers) >= 1) =>
       \A amount \in {toUnits(AmountOf(row').val)},
          payer \in {normalize(row'.paidBy)},
          itemBefore \in {SharesOf(perItemSplits, row'.item)},
          itemAfter \in {SharesOf(perItemSplits', row'.item)} :
         \A name \in NamesOf(balances') \cup Range(allMembers) \cup {payer} :
           \A charge \in {IF name \in Range(allMembers) THEN amount ELSE 0} :
             /\ Has(balances', name)
             /\ Deducted(balances, balances', payer, amount, name) * Len(allMembers) = charge
             /\ Deducted(itemBefore, itemAfter, payer, amount, name) * Len(allMembers) = charge
    ]_vars

\* C7 witness: members a, b, c and 90 paid by a, split "*": a +60, b -30, c -30.
WildcardSplitWitness ==
  /\ allMembers = << <<"a">>, <<"b">>, <<"c">> >>
  /\ i = 1
  /\ row = LunchRow
  /\ balances = << [name |-> <<"a">>, amount |-> toUnits(60)],
                   [name |-> <<"b">>, amount |-> 0 - toUnits(30)],
                   [name |-> <<"c">>, amount |-> 0 - toUnits(30)] >>

\* a row the specification calls malformed: no item, no payer, or an amount that is
\* not a positive number
Malformed(r) ==
  \/ ~Truthy(r.item)
  \/ ~Truthy(r.paidBy)
  \/ AmountOf(r).nan
  \/ AmountOf(r).val <= 0

\* C8, as claimed: a malformed row leaves balances and perItemSplits as they are, and
\* the loop goes on.
MalformedRowsSkipped ==
  [][(RowStep /\ Malformed(row')) =>
       /\ balances' = balances
       /\ perItemSplits' = perItemSplits
       /\ pc' = "process"
    ]_vars

\* C9: a well-formed row whose participant list resolves to nothing leaves balances
\* and perItemSplits as they are: no credit to the payer, no entry for the item.
EmptyParticipantsSkipped ==
  [][(RowStep /\ WellFormed(row') /\ getParticipants(row'.split, allMembers) = <<>>) =>
       /\ balances' = balances
       /\ perItemSplits' = perItemSplits
    ]_vars

\* C9 witness: after a row that was allocated, a well-formed row with an empty
\* specifier has been read; its payer holds no balance and its item no entry.
EmptyParticipantsWitness ==
  /\ i = 2
  /\ WellFormed(row)
  /\ row.split = <<>>
  /\ perItemSplits # <<>>
  /\ ~Has(perItemSplits, row.item)
  /\ ~Has(balances, normalize(row.paidBy))

-----------------------------------------------------------------------------
(* Properties of the minimizers, checked under SpecMin *)

\* a minimizer has returned its transactions
Returned == pc \in {"m_return", "sg_return"}

\* how the minimizer that returned writes a party's key in a transaction
Written(name) == IF pc = "m_return" THEN capitalize(name) ELSE formatGroup(name)

\* the amounts of the transactions a party pays, and of those it receives
RECURSIVE PaidBy(_, _)
PaidBy(txs, who) ==
  IF txs = <<>> THEN 0
  ELSE (IF Head(txs).from = who THEN Head(txs).amount ELSE 0) + PaidBy(Tail(txs), who)

RECURSIVE ReceivedBy(_, _)
ReceivedBy(txs, who) ==
  IF txs = <<>> THEN 0
  ELSE (IF Head(txs).to = who THEN Head(txs).amount ELSE 0) + ReceivedBy(Tail(txs), who)

RECURSIVE TotalOf(_)
TotalOf(txs) == IF txs = <<>> THEN 0 ELSE Head(txs).amount + TotalOf(Tail(txs))

\* a party's input balance after every returned transaction has been applied to it
Settled(party) ==
  party.amount + Unit * PaidBy(transactions, Written(party.name))
               - Unit * ReceivedBy(transactions, Written(party.name))

\* the positive input balances, and the negative ones, added up (in units)
RECURSIVE PositiveTotal(_)
PositiveTotal(entries) ==
  IF entries = <<>> THEN 0
  ELSE (IF Head(entries).amount > 0 THEN Head(entries).amount ELSE 0)
         + PositiveTotal(Tail(entries))

RECURSIVE NegativeTotal(_)
NegativeTotal(entries) ==
  IF entries = <<>> THEN 0
  ELSE (IF Head(entries).amount < 0 THEN 0 - Head(entries).amount ELSE 0)
         + NegativeTotal(Tail(entries))

\* the rounded balances above 0.01, and those below -0.01, added up (in minor units)
RECURSIVE RoundedCredit(_)
RoundedCredit(entries) ==
  IF entries = <<>> THEN 0
  ELSE (IF toFixed2(Head(entries).amount) > 1 THEN toFixed2(Head(entries).amount) ELSE 0)
         + RoundedCredit(Tail(entries))

RECURSIVE RoundedDebt(_)
RoundedDebt(entries) ==
  IF entries = <<>> THEN 0
  ELSE (IF toFixed2(Head(entries).amount) < 0 - 1 THEN 0 - toFixed2(Head(entries).amount) ELSE 0)
         + RoundedDebt(Tail(entries))

\* C2, as claimed: for balances that add up to zero, applying the returned
\* transactions leaves every balance within 0.01 of zero.
SettlementCorrect ==
  (Returned /\ SumAmounts(input) = 0) =>
    \A k \in 1..Len(input) : Settled(input[k]) <= Unit /\ Settled(input[k]) >= 0 - Unit

-----------------------------------------------------------------------------
(* Properties of the subgroups, checked under SpecCluster and Spec *)

\* assignMembersToSubgroups has run
Assigned == pc = "process"

\* the entries of subgroupMap whose member set holds the member
GroupsHolding(member) == {k \in 1..Len(subgroupMap) : member \in Range(subgroupMap[k].members)}

ExplicitNames(raw) == Range(parseGroup(raw))

CanonicalKey(raw) == join(sortStrings(parseGroup(raw)), <<",">>)

\* the rows of the Subgroups sheet whose group lists the member
RowsListing(member) ==
  {j \in 1..Len(sheets.subgroups) : member \in ExplicitNames(sheets.subgroups[j])}

Aggregated == pc \in {"write_transactions", "sg_separate"}

\* the balances of the names in a set, added up
RECURSIVE BalanceOfSet(_, _)
BalanceOfSet(bal, names) ==
  IF bal = <<>> THEN 0
  ELSE (IF Head(bal).name \in names THEN Head(bal).amount ELSE 0) + BalanceOfSet(Tail(bal), names)

\* the names nameToGroupKey maps to a key; the names without a mapping for UNDEF
NamesMappedTo(key) == {name \in NamesOf(balances) : GroupKeyOf(nameToGroupKey, name) = key}

-----------------------------------------------------------------------------
(* Properties of the whole run, checked under Spec *)

\* C10, as claimed: when a required sheet or column is missing, no expense is
\* allocated and no output table is written.
ConfigurationErrorStops ==
  missing # "none" => (perItemSplits = <<>> /\ written = <<>>)

-----------------------------------------------------------------------------
(* Properties of the assignment, checked under SpecCluster *)

\* the keys of the explicit groups that list the member
KeysListing(member) == {CanonicalKey(sheets.subgroups[j]) : j \in RowsListing(member)}

\* C11, as claimed: a member listed in more than one explicit group is mapped to the
\* key of the first row of the Subgroups sheet that lists it, whatever later rows
\* list.
FirstExplicitGroupWins ==
  Assigned =>
    \A member \in Range(allMembers) :
      Cardinality(KeysListing(member)) >= 2 =>
        \A j \in RowsListing(member) :
          (\A h \in RowsListing(member) : j <= h) =>
            GroupKeyOf(nameToGroupKey, member) = CanonicalKey(sheets.subgroups[j])

\* C12, as claimed: a known member that no explicit group lists is mapped to its own
\* name, subgroupMap holds under that key the set of just that member, and no other
\* member is mapped to that key.
SelfGroupFallback ==
  Assigned =>
    \A member \in Range(allMembers) :
      RowsListing(member) = {} =>
        /\ GroupKeyOf(nameToGroupKey, member) = member
        /\ \E k \in 1..Len(subgroupMap) :
             subgroupMap[k].key = member /\ subgroupMap[k].members = <<member>>
        /\ \A other \in Range(allMembers) \ {member} :
             GroupKeyOf(nameToGroupKey, other) # member

\* C13, as claimed: neither the member set nor the balances map has an entry for the
\* empty name.
EmptyNamesRejected ==
  /\ <<>> \notin Range(allMembers)
  /\ ~Has(balances, <<>>)

-----------------------------------------------------------------------------
(* Properties of repeated runs, checked under Spec *)

\* a call has ended, by returning or by throwing
Ended == pc \in {"done", "thrown"}

\* C14: a call on the spreadsheet an earlier call ran on ends the way the earlier
\* call ended, with the same balances, per-item splits, subgroup balances and
\* tables (the transaction tables row by row), whatever the earlier call left on
\* the output sheet.
RunsAgree ==
  Ended => \A k \in 1..Len(runs) : runs[k] = Outcome

\* C14 witness: a second call has returned, and its member transactions begin with
\* two payments of the same amount to the same creditor, by debtors that tied.
RunsAgreeWitness ==
  /\ pc = "done"
  /\ runs # <<>>
  /\ \E t \in 1..Len(written) :
       /\ written[t].kind = "member transactions"
       /\ Len(written[t].rows) >= 2
       /\ written[t].rows[1].cells = written[t].rows[2].cells
       /\ written[t].rows[1].name # written[t].rows[2].name

-----------------------------------------------------------------------------
(* Properties of getParticipants, checked under SpecAlloc *)

\* the text of an entry before its first ":", and the text between its first ":" and
\* the next one (UNDEF when the entry has no ":")
RECURSIVE BeforeColon(_)
BeforeColon(s) ==
  IF s = <<>> \/ Head(s) = ":" THEN <<>> ELSE <<Head(s)>> \o BeforeColon(Tail(s))

RECURSIVE AfterColon(_)
AfterColon(s) ==
  IF s = <<>> THEN UNDEF
  ELSE IF Head(s) = ":" THEN BeforeColon(Tail(s))
  ELSE AfterColon(Tail(s))

\* the entries of a split specifier: its comma-separated pieces, normalized, the
\* empty ones dropped
EntriesOf(specifier) ==
  LET pieces == split(specifier, ",")
  IN SelectSeq([k \in 1..Len(pieces) |-> normalize(pieces[k])], LAMBDA piece : piece # <<>>)

EntryName(entry) == trim(BeforeColon(entry))

\* the weight an entry stands for: its number when that is above 0, else 1
EntryWeight(entry) ==
  LET parsed == parseFloat(AfterColon(entry))
  IN IF ~parsed.nan /\ parsed.val > 0 THEN parsed.val ELSE 1

\* the first entry that has the name
FirstEntryOf(entries, name) ==
  CHOOSE e \in 1..Len(entries) :
    /\ EntryName(entries[e]) = name
    /\ \A d \in 1..(e - 1) : EntryName(entries[d]) # name

\* C15: for a specifier that is not the wildcard, getParticipants returns every name
\* of the entries once, in the order of their first entries, each with the weight of
\* its first entry.
ParticipantsResolved ==
  (row # NoRow /\ row.split # UNDEF /\ trim(row.split) # <<"*">>) =>
    \A participants \in {getParticipants(row.split, allMembers)},
       entries \in {EntriesOf(row.split)} :
      /\ {participants[k].name : k \in 1..Len(participants)}
           = {EntryName(entries[e]) : e \in 1..Len(entries)}
      /\ \A j, k \in 1..Len(participants) :
           j < k => FirstEntryOf(entries, participants[j].name)
                      < FirstEntryOf(entries, participants[k].name)
      /\ \A k \in 1..Len(participants) :
           participants[k].weight
             = EntryWeight(entries[FirstEntryOf(entries, participants[k].name)])

\* C15 witness: rows with the specifiers "a:x,a:3" and "b:0,x:-6" have been read; the
\* second one resolves to b and x, in this order, with weight 1 each.
ParticipantsResolvedWitness ==
  /\ i = 2
  /\ WellFormed(row)
  /\ row.split = <<"b", ":", "0", ",", "x", ":", "-", "6">>
  /\ getParticipants(row.split, allMembers)
       = << [name |-> <<"b">>, weight |-> 1], [name |-> <<"x">>, weight |-> 1] >>
  /\ Get(balances, <<"x">>) < 0

-----------------------------------------------------------------------------
(* Properties of the settlement loop, checked under SpecMin *)

\* an iteration of the loop of a minimizer: a transaction has been pushed
Iteration == Len(transactions') = Len(transactions) + 1

\* the name a minimizer writes for a party
Shown(name) == IF pc = "sg_loop" THEN formatGroup(name) ELSE capitalize(name)

\* what a party still has to give or to get: nothing once it has left its list
Remainder(list, name) ==
  IF \E k \in 1..Len(list) : list[k].name = name
  THEN (CHOOSE p \in Range(list) : p.name = name).amount
  ELSE 0

\* the positions of a list whose amount no other position exceeds
Largest(list) ==
  {k \in 1..Len(list) : \A j \in 1..Len(list) : list[j].amount <= list[k].amount}

\* before and after are the remainders of a list around an iteration that took the
\* amount from the party at position at, and from no other
OnlyDecreased(before, after, at, amount) ==
  /\ {after[k].name : k \in 1..Len(after)} \subseteq {before[k].name : k \in 1..Len(before)}
  /\ \A k \in 1..Len(before) :
       Remainder(after, before[k].name)
         = IF k = at THEN before[k].amount - amount ELSE before[k].amount

\* C16: every iteration pushes a transaction from a debtor with the largest remainder
\* to a creditor with the largest remainder, over the smaller of the two remainders,
\* and takes that amount from the remainders of these two and from no other.
GreedyPairing ==
  [][ Iteration =>
        \A t \in {transactions'[Len(transactions')]} :
          /\ SubSeq(transactions', 1, Len(transactions)) = transactions
          /\ \E d \in Largest(debtors), c \in Largest(creditors) :
               /\ t.from = Shown(debtors[d].name)
               /\ t.to = Shown(creditors[c].name)
               /\ t.amount = min(debtors[d].amount, creditors[c].amount)
               /\ OnlyDecreased(debtors, debtors', d, t.amount)
               /\ OnlyDecreased(creditors, creditors', c, t.amount) ]_vars

\* C16 witness: the member minimizer has made an iteration on balances where the
\* largest debtor comes after a smaller one, and a debtor is left with its remainder.
GreedyPairingWitness ==
  /\ pc = "m_loop"
  /\ Len(transactions) = 1
  /\ \E j, k \in 1..Len(input) :
       /\ j < k
       /\ toFixed2(input[j].amount) < 0 - 1
       /\ toFixed2(input[k].amount) < toFixed2(input[j].amount)
       /\ transactions[1].from = capitalize(input[k].name)
       /\ transactions[1].amount < 0 - toFixed2(input[k].amount)
       /\ Remainder(debtors, input[k].name) = 0 - toFixed2(input[k].amount) - transactions[1].amount
       /\ Remainder(debtors, input[j].name) = 0 - toFixed2(input[j].amount)

\* a minimizer has separated creditors and debtors
Separated == pc \in {"m_loop", "m_return", "sg_loop", "sg_return"}

\* the name the running minimizer writes for a party
PartyName(name) == IF pc \in {"sg_loop", "sg_return"} THEN formatGroup(name) ELSE capitalize(name)

\* the names of the input whose rounded balance is below -0.01, above 0.01, and
\* neither
DebtorNames == {input[k].name : k \in {j \in 1..Len(input) : toFixed2(input[j].amount) < 0 - 1}}

CreditorNames == {input[k].name : k \in {j \in 1..Len(input) : toFixed2(input[j].amount) > 1}}

SettledNames ==
  {input[k].name : k \in {j \in 1..Len(input) : toFixed2(input[j].amount) \in (0 - 1)..1}}

\* C17: a party whose rounded balance is within 0.01 of zero, bounds included, is in
\* neither list and in no transaction; every transaction goes from a party with a
\* rounded balance below -0.01 to a party with a rounded balance above 0.01.
SettledExcluded ==
  Separated =>
    /\ \A name \in SettledNames :
         /\ \A k \in 1..Len(creditors) : creditors[k].name # name
         /\ \A k \in 1..Len(debtors) : debtors[k].name # name
         /\ \A k \in 1..Len(transactions) :
              transactions[k].from # PartyName(name) /\ transactions[k].to # PartyName(name)
    /\ \A k \in 1..Len(transactions) :
         /\ transactions[k].from \in {PartyName(name) : name \in DebtorNames}
         /\ transactions[k].to \in {PartyName(name) : name \in CreditorNames}

\* C17 witness: a minimizer has returned a transaction for balances of which one
\* rounds to exactly 0.01 or to exactly -0.01.
SettledExcludedWitness ==
  /\ Returned
  /\ Len(input) = 3
  /\ Len(transactions) = 1
  /\ \E k \in 1..Len(input) : toFixed2(input[k].amount) \in {0 - 1, 1}

\* C18: when a minimizer returns for balances that add up to zero, no creditor and
\* no debtor is left in its lists.
SettlementLeavesNone ==
  (Returned /\ SumAmounts(input) = 0) => creditors = <<>> /\ debtors = <<>>

-----------------------------------------------------------------------------
(* Properties of the aggregation, checked under Spec *)

\* C19: every name that holds a balance has a key in nameToGroupKey, that key is a
\* key of subgroupMap, and so is every key calculateGroupBalances reports.
BalancesHaveGroups ==
  /\ \A name \in NamesOf(balances) :
       /\ Has(nameToGroupKey, name)
       /\ HasKey(subgroupMap, GroupKeyOf(nameToGroupKey, name))
  /\ \A r \in 1..Len(groupBalances) : HasKey(subgroupMap, groupBalances[r].name)

-----------------------------------------------------------------------------
(* Properties of the split matrix, checked under Spec *)

\* the names that have an entry under some item of perItemSplits
NamesInSplits == UNION {NamesOf(perItemSplits[k].shares) : k \in 1..Len(perItemSplits)}

\* for every name, its entries under all items add up to its balance
SplitsAddUpToBalances ==
  \A name \in NamesOf(balances) \cup NamesInSplits :
    totalShare(perItemSplits, name) = Get(balances, name)

\* the closing row of a split matrix, and the rows of a balance table, as pairs of a
\* written name and a written amount
NetTotalsOf(table) == {<<table.header[k], table.totals[k]>> : k \in 1..Len(table.header)}

BalanceRowsOf(table) ==
  {<<table.rows[r].name, table.rows[r].cells[1]>> : r \in 1..Len(table.rows)}

\* C20: for every name the entries of perItemSplits add up over all items to the
\* balance of the name, and the closing row of the written split matrix holds what
\* the written balance table holds.
SplitsAgreeWithBalances ==
  /\ SplitsAddUpToBalances
  /\ \A j, k \in 1..Len(written) :
       (written[j].kind = "items" /\ written[k].kind = "balances") =>
         NetTotalsOf(written[j]) = BalanceRowsOf(written[k])

-----------------------------------------------------------------------------
(* Properties of the removals of the settlement loop, checked under SpecMin *)

\* the parties of a list that an iteration removed from it
Removed(before, after) ==
  {p \in Range(before) : \A k \in 1..Len(after) : after[k].name # p.name}

\* what a debtor, or a creditor, has left after the transaction t
DebtorLeft(p, t) == p.amount - (IF t.from = Shown(p.name) THEN t.amount ELSE 0)

CreditorLeft(p, t) == p.amount - (IF t.to = Shown(p.name) THEN t.amount ELSE 0)

\* an iteration removes a party that has nothing left, and no party that has 0.01 or
\* more left
IterationRemoves ==
  Iteration =>
    \A t \in {transactions'[Len(transactions')]},
       gone \in {<<Removed(debtors, debtors'), Removed(creditors, creditors')>>} :
      /\ \/ \E p \in gone[1] : DebtorLeft(p, t) = 0
         \/ \E p \in gone[2] : CreditorLeft(p, t) = 0
      /\ \A p \in gone[1] : DebtorLeft(p, t) < 1
      /\ \A p \in gone[2] : CreditorLeft(p, t) < 1
      /\ Len(debtors') = Len(debtors) - Cardinality(gone[1])
      /\ Len(creditors') = Len(creditors) - Cardinality(gone[2])

\* the number of parties of the initial partition
Partitioned == Cardinality(CreditorNames) + Cardinality(DebtorNames)

====
